---- MODULE Spec2Model ----
(***************************************************************************)
(* A model of AnyPercentSearcher.py: one run of main() against a remote    *)
(* speedrun catalog.  The remote catalog and the configuration are fixed   *)
(* in the initial state; every HTTP request is one step whose response     *)
(* status (200 or the rate-limit status) is an input of the step.          *)
(***************************************************************************)
EXTENDS Integers, Sequences, FiniteSets, TLC

\* ------------------------------------------------------------------ bounds
MaxThrottle == 2    \* rate-limited responses in one run
MaxPages == 2       \* pages of one catalog
MaxEntries == 2     \* entries of one catalog
MaxCalls == 2       \* calls of get_world_record_any for one game

\* ------------------------------------------------- configuration (constants)
PLATFORM_NAME == "GameCube"
ANY_PERCENT_MIN_RUN_TIME_HOURS == 2
ANY_PERCENT_MIN_RUN_TIME_MINUTES == 0
RATE_LIMIT_ERROR_CODE == 420
\* Python's None, as a value no id and no time takes
None == -1

VARIABLES
    remote,                 \* the remote catalog (never changes during a run)
    GENRES_TO_INCLUDE,      \* configuration: genre names to include
    GENRES_TO_EXCLUDE,      \* configuration: genre names to exclude
    PLATFORM_EXCLUSIVE,     \* configuration: the exclusivity flag
    pc,                     \* where main() is
    url,                    \* the pagination cursor of the running loop
    platform_id,            \* main's platform_id
    genre_ids_to_include,   \* list built by the genre resolver
    genre_ids_to_exclude,   \* list built by the genre resolver
    idx,                    \* position of the for loop in the current games page
    game,                   \* the game the generator yielded last
    categories_data,        \* result of the last get_category_data
    world_record_time,      \* result of the last get_world_record_any
    printed,                \* report lines printed so far
    records,                \* history: the game and the result of every finished lookup
    yielded,                \* history: games yielded by get_platform_games
    calls,                  \* history: the log and the sleeps at every call of get_world_record_any
    seen,                   \* history: games the for loop of line 120 has taken
    log,                    \* history: every request issued, with its status
    stopped,                \* history: the URLs at which a pagination loop ended
    sleeps                  \* history: number of time.sleep calls

vars == <<remote, GENRES_TO_INCLUDE, GENRES_TO_EXCLUDE, PLATFORM_EXCLUSIVE, pc,
          url, platform_id, genre_ids_to_include, genre_ids_to_exclude, idx,
          game, categories_data, world_record_time, printed, records, yielded, calls, seen, log, stopped,
          sleeps>>

config == <<remote, GENRES_TO_INCLUDE, GENRES_TO_EXCLUDE, PLATFORM_EXCLUSIVE>>

\* ------------------------------------------------------------ small helpers
SeqUpTo(S, n) == UNION {[1..k -> S] : k \in 0..n}

Range(s) == {s[i] : i \in 1..Len(s)}

Min(S) == CHOOSE x \in S : \A y \in S : x <= y

RECURSIVE Concat(_)
Concat(ss) == IF ss = <<>> THEN <<>> ELSE Head(ss) \o Concat(Tail(ss))

Count420(l) == Cardinality({i \in 1..Len(l) : l[i].status = RATE_LIMIT_ERROR_CODE})

\* ------------------------------------------------------------------- URLs
\* A URL is <<kind, id, page or category>>.
PlatformsUrl(p) == <<"platforms", 0, p>>
GenresUrl(p) == <<"genres", 0, p>>
GamesUrl(pid, p) == <<"games", pid, p>>
GameUrl(gid) == <<"game", gid, 0>>
CategoriesUrl(gid) == <<"categories", gid, 0>>
LeaderboardUrl(gid, cid) == <<"leaderboards", gid, cid>>

\* --------------------------------------------------------- response payloads
\* The JSON error object a rate-limited response may carry: neither 'data' nor
\* 'pagination'.
ErrorObject == [hasData |-> FALSE, data |-> <<>>, hasLinks |-> FALSE, links |-> <<>>]

\* ------------------------------------------------------- the remote catalog
\* A page of a paginated listing: the 'data' array and the 'pagination.links'
\* array, either of which a malformed page lacks.
Page(d, l) == [hasData |-> TRUE, data |-> d, hasLinks |-> TRUE, links |-> l]

Link(r, u) == [rel |-> r, uri |-> u]

PrevLink(p) == Link("prev", IF p > 1 THEN p - 1 ELSE p)

\* The links the service sends: prev (after page 1) before next (before the last).
CanonLinks(p, n) ==
    (IF p > 1 THEN <<PrevLink(p)>> ELSE <<>>) \o
    (IF p < n THEN <<Link("next", p + 1)>> ELSE <<>>)

\* Every order of the links of page p of n; the chain of next links is 1..n.
LinkShapes(p, n) ==
    IF p < n
    THEN {<<Link("next", p + 1)>>,
          <<PrevLink(p), Link("next", p + 1)>>,
          <<Link("next", p + 1), PrevLink(p)>>}
    ELSE {<<>>, <<PrevLink(p)>>}

\* The ways to cut a list of len entries into n consecutive pages.
Cuts(len, n) ==
    {c \in [0..n -> 0..len] :
        /\ c[0] = 0
        /\ c[n] = len
        /\ \A k \in 1..n : c[k - 1] <= c[k]}

Chunk(e, c, k) == SubSeq(e, c[k - 1] + 1, c[k])

\* Catalogs that differ in their entries and in how the entries fall on pages.
DataCatalogs(E) ==
    UNION {UNION {{[p \in 1..n |-> Page(Chunk(e, c, p), CanonLinks(p, n))] :
                      c \in Cuts(Len(e), n)} :
                  n \in 1..MaxPages} :
           e \in E}

\* Catalogs that differ in the order of the links of their pages.
LinkCatalogs(E) ==
    UNION {UNION {UNION {{[p \in 1..n |-> Page(Chunk(e, c, p), ls[p])] :
                             ls \in {f \in [1..n -> UNION {LinkShapes(q, n) : q \in 1..n}] :
                                        \A q \in 1..n : f[q] \in LinkShapes(q, n)}} :
                         c \in Cuts(Len(e), n)} :
                  n \in 1..MaxPages} :
           e \in E}

Malformations == {"nodata", "nolinks", "neither"}

Malform(pg, m) ==
    CASE m = "nodata" -> [pg EXCEPT !.hasData = FALSE, !.data = <<>>]
      [] m = "nolinks" -> [pg EXCEPT !.hasLinks = FALSE, !.links = <<>>]
      [] OTHER -> ErrorObject

\* Catalogs one page of which lacks 'data', the links, or both.
MalformedCatalogs(E) ==
    UNION {{[cat EXCEPT ![k] = Malform(cat[k], m)] :
               k \in DOMAIN cat, m \in Malformations} :
           cat \in DataCatalogs(E)}

\* Platforms: entry i of the catalog has id 10 + i.
PlatformNames == {"GameCube", "gamecube"}

PlatformEntries(names) == [i \in 1..Len(names) |-> [name |-> names[i], id |-> 10 + i]]

PlatformCatalogs ==
    LET All == {PlatformEntries(ns) : ns \in SeqUpTo(PlatformNames, MaxEntries)}
        Few == {PlatformEntries(<<"gamecube">>), PlatformEntries(<<"GameCube">>)}
    IN  DataCatalogs(All) \cup LinkCatalogs(Few) \cup MalformedCatalogs(Few)

DefaultPlatforms == <<Page(PlatformEntries(<<"GameCube">>), <<>>)>>

\* Genres: each genre name has one id.
GenreNames == {"Action", "Racing"}

Genres == {[name |-> "Action", id |-> 1], [name |-> "Racing", id |-> 2],
           [name |-> "Puzzle", id |-> 3]}

GenreLists == {e \in SeqUpTo(Genres, MaxEntries) :
                  \A i, j \in 1..Len(e) : i # j => e[i] # e[j]}

GenreCatalogs ==
    LET Few == {e \in GenreLists : Len(e) = 1 /\ e[1].name = "Action"}
    IN  DataCatalogs(GenreLists) \cup LinkCatalogs(Few) \cup MalformedCatalogs(Few)

DefaultGenres ==
    <<Page(<<[name |-> "Action", id |-> 1], [name |-> "Racing", id |-> 2]>>, <<>>)>>

\* Games: entry i of the catalog has id 100 + i; a record may lack 'genres'.
GameIds == {100 + i : i \in 1..MaxEntries}

GameShapes ==
    {[hasGenres |-> FALSE, genres |-> {}]} \cup
    {[hasGenres |-> TRUE, genres |-> s] : s \in SUBSET {1, 2}}

GameEntries(shapes) ==
    [i \in 1..Len(shapes) |->
        [id |-> 100 + i, hasGenres |-> shapes[i].hasGenres, genres |-> shapes[i].genres]]

ActionGame == [hasGenres |-> TRUE, genres |-> {1}]

\* The answer to /games/<id>: 'data' with 'platforms', either of which may lack.
Detail(ps) == [hasData |-> TRUE, hasPlatforms |-> TRUE, platforms |-> ps]

\* A platform id no entry of the platform catalog has.
OtherPlatform == 10 + MaxEntries + 1

DetailShapes ==
    {Detail(<<11>>), Detail(<<OtherPlatform>>), Detail(<<11, OtherPlatform>>),
     Detail(<<OtherPlatform, 11>>), Detail(<<>>),
     [hasData |-> FALSE, hasPlatforms |-> FALSE, platforms |-> <<>>],
     [hasData |-> TRUE, hasPlatforms |-> FALSE, platforms |-> <<>>]}

\* The answer to /games/<id>/categories and to /leaderboards/<id>/category/<c>.
Categories(cs) == [hasData |-> TRUE, data |-> cs]

NoCategories == [hasData |-> FALSE, data |-> <<>>]

CategoryNames == {"Any%", "100%", "any%"}

CategoryEntries(names) == [i \in 1..Len(names) |-> [name |-> names[i], id |-> i]]

CategoryIds == 1..MaxEntries

Leaderboard(rs) == [hasData |-> TRUE, hasRuns |-> TRUE, runs |-> rs]

LeaderboardShapes ==
    {Leaderboard(<<>>), Leaderboard(<<7199>>), Leaderboard(<<7200>>),
     Leaderboard(<<7500>>), Leaderboard(<<7500, 9000>>),
     [hasData |-> FALSE, hasRuns |-> FALSE, runs |-> <<>>],
     [hasData |-> TRUE, hasRuns |-> FALSE, runs |-> <<>>]}

AnyPercent == Categories(CategoryEntries(<<"Any%">>))

Remote(pl, ge, ga, de, ca, le) ==
    [platforms |-> pl, genres |-> ge, games |-> ga, details |-> de,
     categories |-> ca, leaderboards |-> le]

DefaultDetails == [g \in GameIds |-> Detail(<<11>>)]

DefaultLeaderboards == [g \in GameIds |-> [c \in CategoryIds |-> Leaderboard(<<7500>>)]]

OneGame == <<Page(GameEntries(<<ActionGame>>), <<>>)>>

NoGames == <<Page(<<>>, <<>>)>>

\* ------------------------------------------------------------ initial states
Start(r, inc, exc, excl) ==
    /\ remote = r
    /\ GENRES_TO_INCLUDE = inc
    /\ GENRES_TO_EXCLUDE = exc
    /\ PLATFORM_EXCLUSIVE = excl
    /\ pc = "get_platform_id"
    /\ url = PlatformsUrl(1)
    /\ platform_id = None
    /\ genre_ids_to_include = <<>>
    /\ genre_ids_to_exclude = <<>>
    /\ idx = 0
    /\ game = None
    /\ categories_data = <<>>
    /\ world_record_time = None
    /\ printed = <<>>
    /\ records = <<>>
    /\ calls = <<>>
    /\ yielded = <<>>
    /\ seen = <<>>
    /\ log = <<>>
    /\ stopped = {}
    /\ sleeps = 0

\* Runs that differ in the platform catalog.
InitPlatform ==
    \E pl \in PlatformCatalogs, inc \in {{}, {"Action"}} :
        Start(Remote(pl, DefaultGenres, OneGame, DefaultDetails,
                     [g \in GameIds |-> AnyPercent], DefaultLeaderboards),
              inc, {}, FALSE)

\* Runs that differ in the genre catalog and in the configured genre names.
InitGenres ==
    \E ge \in GenreCatalogs, inc \in SUBSET GenreNames, exc \in SUBSET GenreNames :
        /\ inc \cup exc # {}
        /\ Start(Remote(DefaultPlatforms, ge, NoGames, DefaultDetails,
                        [g \in GameIds |-> NoCategories], DefaultLeaderboards),
                 inc, exc, FALSE)

\* Runs that differ in the games of one page and in the configured genre names.
InitFilter ==
    \E shapes \in SeqUpTo(GameShapes, MaxEntries),
       inc \in SUBSET GenreNames, exc \in SUBSET GenreNames :
        Start(Remote(DefaultPlatforms, DefaultGenres,
                     <<Page(GameEntries(shapes), <<>>)>>, DefaultDetails,
                     [g \in GameIds |-> NoCategories], DefaultLeaderboards),
              inc, exc, FALSE)

\* Runs that differ in the pages of the game catalog.
GameCatalogs ==
    LET All == {GameEntries(ss) : ss \in SeqUpTo({ActionGame}, MaxEntries)}
        Few == {GameEntries(<<ActionGame>>)}
    IN  DataCatalogs(All) \cup LinkCatalogs(Few) \cup MalformedCatalogs(Few)

InitPaging ==
    \E ga \in GameCatalogs :
        Start(Remote(DefaultPlatforms, DefaultGenres, ga, DefaultDetails,
                     [g \in GameIds |-> AnyPercent], DefaultLeaderboards),
              {}, {}, FALSE)

\* Runs with the exclusivity flag set, that differ in the games' details.
ExclusiveKinds ==
    {<<ActionGame, d>> : d \in DetailShapes} \cup
    {<<[hasGenres |-> TRUE, genres |-> {2}], Detail(<<11>>)>>,
     <<[hasGenres |-> FALSE, genres |-> {}], Detail(<<11>>)>>}

InitExclusive ==
    \E ks \in SeqUpTo(ExclusiveKinds, MaxEntries), inc \in {{}, {"Action"}} :
        Start(Remote(DefaultPlatforms, DefaultGenres,
                     <<Page(GameEntries([i \in 1..Len(ks) |-> ks[i][1]]), <<>>)>>,
                     [g \in GameIds |->
                        IF g - 100 <= Len(ks) THEN ks[g - 100][2] ELSE Detail(<<11>>)],
                     [g \in GameIds |-> AnyPercent], DefaultLeaderboards),
              inc, {}, TRUE)

\* Runs that differ in the categories and the leaderboard of the one game.
InitRecord ==
    \E names \in SeqUpTo(CategoryNames, MaxEntries), lb \in LeaderboardShapes,
       ca \in BOOLEAN :
        Start(Remote(DefaultPlatforms, DefaultGenres, OneGame, DefaultDetails,
                     [g \in GameIds |->
                        IF ca THEN Categories(CategoryEntries(names)) ELSE NoCategories],
                     [g \in GameIds |-> [c \in CategoryIds |->
                        IF \E i \in 1..Len(names) :
                               /\ names[i] = "Any%"
                               /\ i < c
                        THEN Leaderboard(<<9000>>) ELSE lb]]),
              {}, {}, FALSE)

\* Runs over one page of games that differ in the games' records.
ReportKinds ==
    {<<AnyPercent, Leaderboard(rs)>> : rs \in {<<>>, <<7199>>, <<7200>>, <<7500>>}} \cup
    {<<NoCategories, Leaderboard(<<7500>>)>>}

InitReport ==
    \E ks \in SeqUpTo(ReportKinds, MaxEntries) :
        Start(Remote(DefaultPlatforms, DefaultGenres,
                     <<Page(GameEntries([i \in 1..Len(ks) |-> ActionGame]), <<>>)>>,
                     DefaultDetails,
                     [g \in GameIds |->
                        IF g - 100 <= Len(ks) THEN ks[g - 100][1] ELSE NoCategories],
                     [g \in GameIds |-> [c \in CategoryIds |->
                        IF g - 100 <= Len(ks) THEN ks[g - 100][2] ELSE Leaderboard(<<>>)]]),
              {}, {}, FALSE)

Init ==
    \/ InitPlatform
    \/ InitGenres
    \/ InitFilter
    \/ InitPaging
    \/ InitExclusive
    \/ InitRecord
    \/ InitReport

\* --------------------------------------------------------------- responses
\* The responses the service may give to a request whose proper answer is
\* payload: the answer itself, or (while the bound allows) the rate-limit
\* status with a body that is either no JSON or an error object.
Responses(payload) ==
    {[status |-> 200, isJson |-> TRUE, payload |-> payload]} \cup
    (IF Count420(log) < MaxThrottle
     THEN {[status |-> RATE_LIMIT_ERROR_CODE, isJson |-> j, payload |-> ErrorObject] :
              j \in BOOLEAN}
     ELSE {})

\* requests.get(u) answered by resp; parsed says whether response.json() is
\* called on the answer.
Request(u, resp, parsed) ==
    log' = Append(log, [url |-> u, status |-> resp.status, parsed |-> parsed])

\* time.sleep(RATE_LIMIT_TIMEOUT_SECONDS): the length of the cooldown (60 s)
\* plays no part in the run, the number of cooldowns does.
Sleep == sleeps' = sleeps + 1

\* ------------------------------------------------------------------- main
\* main, lines 29-35: the genre resolver runs when a name list is not empty.
StageAfterGenres(pid) == IF pid # None THEN "get_platform_games" ELSE "done"

\* A variant of StageAfterPlatform without the test of line 29.
StageAlwaysGenres(pid) == "get_genre_ids"

StageAfterPlatform(pid) ==
    IF Cardinality(GENRES_TO_INCLUDE) > 0 \/ Cardinality(GENRES_TO_EXCLUDE) > 0
    THEN "get_genre_ids"
    ELSE StageAfterGenres(pid)

\* The first URL of the loop a stage runs.
StartUrl(stage, pid) ==
    CASE stage = "get_genre_ids" -> GenresUrl(1)
      [] stage = "get_platform_games" -> GamesUrl(pid, 1)
      [] OTHER -> url

\* An uncaught exception ends the run.
Raise ==
    /\ pc' = "raised"
    /\ UNCHANGED <<url, platform_id, genre_ids_to_include, genre_ids_to_exclude, idx,
                   game, categories_data, world_record_time, printed, records, yielded, calls, seen,
                   stopped, sleeps>>

\* ------------------------------------------------------------ get_platform_id
\* A variant of PlatformMatch that keeps the last platform with the name.
PlatformMatchLast(data, platform_name) ==
    IF \E i \in 1..Len(data) : data[i].name = platform_name
    THEN CHOOSE i \in 1..Len(data) :
            /\ data[i].name = platform_name
            /\ \A j \in 1..Len(data) : data[j].name = platform_name => j <= i
    ELSE 0

\* Lines 66-68: the index of the first platform of the page with the name, or 0.
PlatformMatch(data, platform_name) ==
    IF \E i \in 1..Len(data) : data[i].name = platform_name
    THEN Min({i \in 1..Len(data) : data[i].name = platform_name})
    ELSE 0

\* Lines 71-75: the uri of the first link whose rel is 'next', or None.
NextPageUrlScan(links) ==
    IF \E i \in 1..Len(links) : links[i].rel = "next"
    THEN links[Min({i \in 1..Len(links) : links[i].rel = "next"})].uri
    ELSE None

\* One iteration of the loop of get_platform_id (lines 61-83), and main's
\* lines 26-39 when the function returns.
GetPlatformId ==
    /\ pc = "get_platform_id"
    /\ \E resp \in Responses(remote.platforms[url[3]]) :
        LET data == resp.payload
            m == PlatformMatch(data.data, PLATFORM_NAME)
            nxt == NextPageUrlScan(data.links)
            found == IF m # 0 THEN data.data[m].id ELSE None
            stage == StageAfterPlatform(found)
        IN  /\ Request(url, resp, TRUE)
            /\ IF ~resp.isJson \/ ~data.hasData \/ (m = 0 /\ ~data.hasLinks)
               THEN Raise
               ELSE IF m = 0 /\ nxt # None
               THEN /\ url' = PlatformsUrl(nxt)
                    /\ UNCHANGED <<pc, platform_id, genre_ids_to_include,
                                   genre_ids_to_exclude, idx, game, categories_data,
                                   world_record_time, printed, records, yielded, calls, seen, stopped,
                                   sleeps>>
               ELSE /\ platform_id' = found
                    /\ pc' = stage
                    /\ url' = StartUrl(stage, found)
                    /\ stopped' = (IF m = 0 THEN stopped \cup {url} ELSE stopped)
                    /\ UNCHANGED <<genre_ids_to_include, genre_ids_to_exclude, idx,
                                   game, categories_data, world_record_time, printed, records,
                                   yielded, calls, seen, sleeps>>
    /\ UNCHANGED config

\* ------------------------------------------ get_genre_ids_to_include_and_exclude
\* A variant of NextPageUrlLast without the test of the link's rel.
NextPageUrlAny(links) ==
    IF Len(links) = 0 THEN None ELSE links[Len(links)].uri

\* Lines 138-139 and 255-256: the uri of the last link if its rel is 'next'.
NextPageUrlLast(links) ==
    IF Len(links) = 0 THEN None
    ELSE IF links[Len(links)].rel = "next" THEN links[Len(links)].uri
    ELSE None

\* Lines 247-251: the ids a page adds to the include list and to the exclude list.
RECURSIVE IncludeIdsOf(_, _)
IncludeIdsOf(data, inc) ==
    IF data = <<>> THEN <<>>
    ELSE (IF Head(data).name \in inc THEN <<Head(data).id>> ELSE <<>>) \o
         IncludeIdsOf(Tail(data), inc)

RECURSIVE ExcludeIdsOf(_, _, _)
ExcludeIdsOf(data, inc, exc) ==
    IF data = <<>> THEN <<>>
    ELSE (IF Head(data).name \notin inc /\ Head(data).name \in exc
          THEN <<Head(data).id>> ELSE <<>>) \o
         ExcludeIdsOf(Tail(data), inc, exc)

\* One iteration of the loop of the genre resolver (lines 234-264), and main's
\* lines 32-39 when the function returns.
GetGenreIds ==
    /\ pc = "get_genre_ids"
    /\ \E resp \in Responses(remote.genres[url[3]]) :
        LET data == resp.payload
            nxt == IF data.hasLinks THEN NextPageUrlLast(data.links) ELSE None
            stage == StageAfterGenres(platform_id)
        IN  IF resp.status = RATE_LIMIT_ERROR_CODE
            THEN /\ Request(url, resp, FALSE)
                 /\ Sleep
                 /\ UNCHANGED <<pc, url, platform_id, genre_ids_to_include,
                                genre_ids_to_exclude, idx, game, categories_data,
                                world_record_time, printed, records, yielded, calls, seen, stopped>>
            ELSE /\ Request(url, resp, TRUE)
                 /\ IF ~data.hasData
                    THEN Raise
                    ELSE /\ genre_ids_to_include' = genre_ids_to_include \o
                                IncludeIdsOf(data.data, GENRES_TO_INCLUDE)
                         /\ genre_ids_to_exclude' = genre_ids_to_exclude \o
                                ExcludeIdsOf(data.data, GENRES_TO_INCLUDE, GENRES_TO_EXCLUDE)
                         /\ IF nxt # None
                            THEN /\ url' = GenresUrl(nxt)
                                 /\ UNCHANGED <<pc, stopped>>
                            ELSE /\ pc' = stage
                                 /\ url' = StartUrl(stage, platform_id)
                                 /\ stopped' = stopped \cup {url}
                         /\ UNCHANGED <<platform_id, idx, game, categories_data,
                                        world_record_time, printed, records, yielded, calls, seen, sleeps>>
    /\ UNCHANGED config

\* ---------------------------------------------------------- get_platform_games
\* A variant of HasGenres without the check of line 121.
HasGenresUnchecked(g) == TRUE

\* A variant of PassesInclude without the length guard of line 123.
PassesIncludeUnguarded(g, include) == Range(include) \cap g.genres # {}

\* A variant of PassesExclude that, like line 123, skips on an empty intersection.
PassesExcludeInverted(g, exclude) ==
    ~(Len(exclude) > 0 /\ Range(exclude) \cap g.genres = {})

\* A variant of IsExclusive without the length check of line 131.
IsExclusiveFirst(game_data, pid) ==
    /\ game_data.hasData
    /\ game_data.hasPlatforms
    /\ Len(game_data.platforms) >= 1
    /\ game_data.platforms[1] = pid

\* Line 121: the record carries genre information.
HasGenres(g) == g.hasGenres

\* Line 123: the include filter lets the game through.
PassesInclude(g, include) ==
    ~(Len(include) > 0 /\ Range(include) \cap g.genres = {})

\* Line 125: the exclude filter lets the game through.
PassesExclude(g, exclude) ==
    ~(Len(exclude) > 0 /\ Range(exclude) \cap g.genres # {})

\* Lines 121-126: the game reaches line 127.
PassesGenreFilters(g, include, exclude) ==
    /\ HasGenres(g)
    /\ PassesInclude(g, include)
    /\ PassesExclude(g, exclude)

\* Lines 129-131: the detail names the platform and no other.
IsExclusive(game_data, pid) ==
    /\ game_data.hasData
    /\ game_data.hasPlatforms
    /\ Len(game_data.platforms) = 1
    /\ game_data.platforms[1] = pid

\* The page the generator holds (the answer to the last request of line 108).
CurrentPage == remote.games[url[3]]

\* Lines 107-116: a request for a page of the game catalog.
GetPlatformGames ==
    /\ pc = "get_platform_games"
    /\ \E resp \in Responses(remote.games[url[3]]) :
        IF resp.status = RATE_LIMIT_ERROR_CODE
        THEN /\ Request(url, resp, FALSE)
             /\ Sleep
             /\ UNCHANGED <<pc, idx>>
        ELSE /\ Request(url, resp, TRUE)
             /\ pc' = "for_game"
             /\ idx' = 1
             /\ UNCHANGED sleeps
    /\ UNCHANGED <<url, platform_id, genre_ids_to_include, genre_ids_to_exclude, game,
                   categories_data, world_record_time, printed, records, yielded, calls, seen, stopped>>
    /\ UNCHANGED config

\* A variant of YieldGame that collects the game and goes on with the loop,
\* handing nothing to the consumer.
YieldGameEager(g) ==
    /\ yielded' = Append(yielded, g)
    /\ calls' = Append(calls, [game |-> g.id, log |-> Len(log'), sleeps |-> sleeps])
    /\ game' = g
    /\ idx' = idx + 1
    /\ UNCHANGED pc

\* Lines 132 and 134: yield game; main's loop body (line 44) runs before the
\* for loop of line 120 resumes.
YieldGame(g) ==
    /\ yielded' = Append(yielded, g)
    /\ calls' = Append(calls, [game |-> g.id, log |-> Len(log'), sleeps |-> sleeps])
    /\ game' = g
    /\ idx' = idx + 1
    /\ pc' = "get_category_data"

\* Lines 120-134: the for loop takes the next game of the page, filters it,
\* fetches its detail when PLATFORM_EXCLUSIVE, and yields it or goes on.
ForGame ==
    /\ pc = "for_game"
    /\ CurrentPage.hasData
    /\ idx <= Len(CurrentPage.data)
    /\ LET g == CurrentPage.data[idx]
           passes == PassesGenreFilters(g, genre_ids_to_include, genre_ids_to_exclude)
           detailed == passes /\ PLATFORM_EXCLUSIVE
       IN  \E resp \in (IF detailed THEN Responses(remote.details[g.id])
                         ELSE {[status |-> 200, isJson |-> TRUE, payload |-> ErrorObject]}) :
            /\ seen' = Append(seen, g)
            /\ IF detailed THEN Request(GameUrl(g.id), resp, TRUE) ELSE UNCHANGED log
            /\ IF detailed /\ ~resp.isJson
               THEN /\ pc' = "raised"
                    /\ UNCHANGED <<idx, game, yielded, calls>>
               ELSE IF passes /\ (detailed => IsExclusive(resp.payload, platform_id))
               THEN YieldGame(g)
               ELSE /\ idx' = idx + 1
                    /\ UNCHANGED <<pc, game, yielded, calls>>
    /\ UNCHANGED <<url, platform_id, genre_ids_to_include, genre_ids_to_exclude,
                   categories_data, world_record_time, printed, records, stopped, sleeps>>
    /\ UNCHANGED config

\* Lines 136-145: after the last game of the page, the next page or the end.
GamesPagination ==
    /\ pc = "for_game"
    /\ CurrentPage.hasData => idx > Len(CurrentPage.data)
    /\ LET nxt == IF CurrentPage.hasLinks THEN NextPageUrlLast(CurrentPage.links)
                  ELSE None
       IN  IF nxt # None
           THEN /\ url' = GamesUrl(platform_id, nxt)
                /\ pc' = "get_platform_games"
                /\ UNCHANGED stopped
           ELSE /\ pc' = "done"
                /\ stopped' = stopped \cup {url}
                /\ UNCHANGED url
    /\ UNCHANGED <<platform_id, genre_ids_to_include, genre_ids_to_exclude, idx, game,
                   categories_data, world_record_time, printed, records, yielded, calls, seen, log,
                   sleeps>>
    /\ UNCHANGED config

\* ------------------------------------------------------- get_world_record_any
\* A variant of CategoryRetry that gives up with an empty list, as the
\* docstring of lines 154-155 has it.
CategoryGiveUp ==
    /\ categories_data' = <<>>
    /\ pc' = "get_leaderboard_data"

\* Line 165: the function calls itself, which issues the same request again.
CategoryRetry == UNCHANGED <<pc, categories_data>>

\* Lines 157-170: the category list of the yielded game.
GetCategoryData ==
    /\ pc = "get_category_data"
    /\ \E resp \in Responses(remote.categories[game.id]) :
        IF resp.status = RATE_LIMIT_ERROR_CODE
        THEN /\ Request(CategoriesUrl(game.id), resp, FALSE)
             /\ Sleep
             /\ CategoryRetry
        ELSE /\ Request(CategoriesUrl(game.id), resp, TRUE)
             /\ categories_data' =
                    (IF resp.payload.hasData THEN resp.payload.data ELSE <<>>)
             /\ pc' = "get_leaderboard_data"
             /\ UNCHANGED sleeps
    /\ UNCHANGED <<url, platform_id, genre_ids_to_include, genre_ids_to_exclude, idx,
                   game, world_record_time, printed, records, yielded, calls, seen, stopped>>
    /\ UNCHANGED config

\* A variant of AnyPercentCategory that takes the last category named 'Any%'.
AnyPercentCategoryLast(cats) ==
    IF \E i \in 1..Len(cats) : cats[i].name = "Any%"
    THEN CHOOSE i \in 1..Len(cats) :
            /\ cats[i].name = "Any%"
            /\ \A k \in 1..Len(cats) : cats[k].name = "Any%" => k <= i
    ELSE 0

\* Lines 183-185: the index of the first category named 'Any%', or 0.
AnyPercentCategory(cats) ==
    IF \E i \in 1..Len(cats) : cats[i].name = "Any%"
    THEN Min({i \in 1..Len(cats) : cats[i].name = "Any%"})
    ELSE 0

\* A variant of WorldRecord that takes the last run of the answer.
WorldRecordLast(leaderboard) ==
    IF leaderboard.hasData /\ leaderboard.hasRuns /\ Len(leaderboard.runs) > 0
    THEN leaderboard.runs[Len(leaderboard.runs)]
    ELSE None

\* Lines 197-200 and 216-221: the time of the first run of the answer, or None.
WorldRecord(leaderboard) ==
    IF leaderboard.hasData /\ leaderboard.hasRuns /\ Len(leaderboard.runs) > 0
    THEN leaderboard.runs[1]
    ELSE None

\* Line 40
filter_min_run_time ==
    ANY_PERCENT_MIN_RUN_TIME_HOURS * 3600 + ANY_PERCENT_MIN_RUN_TIME_MINUTES * 60

\* A variant of MeetsTimeFilter that lets the threshold itself through.
MeetsTimeFilterInclusive(t) == t # None /\ t # 0 /\ t >= filter_min_run_time

\* Line 45: a time that is neither None nor 0, above the threshold.
MeetsTimeFilter(t) == t # None /\ t # 0 /\ t > filter_min_run_time

\* Lines 46-48: the printed line, as <<hours, minutes, game>>.
ReportLine(t, g) == <<t \div 3600, (t % 3600) \div 60, g.id>>

\* A variant of LeaderboardRetry that starts the lookup over.
LeaderboardRefetch ==
    /\ pc' = "get_category_data"
    /\ UNCHANGED <<world_record_time, printed, records>>

\* Line 195: the function calls itself with the same categories_data, which
\* issues the same request again.
LeaderboardRetry == UNCHANGED <<pc, world_record_time, printed, records>>

\* Lines 183-201, 214-221 and 45-48: the leaderboard of the first 'Any%'
\* category, the record it holds, and main's report line; then the generator
\* resumes.
GetLeaderboardData ==
    /\ pc = "get_leaderboard_data"
    /\ LET c == AnyPercentCategory(categories_data)
           empty == [hasData |-> FALSE, hasRuns |-> FALSE, runs |-> <<>>]
       IN  \E resp \in (IF c # 0
                         THEN Responses(remote.leaderboards[game.id][categories_data[c].id])
                         ELSE {[status |-> 200, isJson |-> TRUE, payload |-> empty]}) :
            IF resp.status = RATE_LIMIT_ERROR_CODE
            THEN /\ Request(LeaderboardUrl(game.id, categories_data[c].id), resp, FALSE)
                 /\ Sleep
                 /\ LeaderboardRetry
            ELSE /\ IF c # 0
                    THEN Request(LeaderboardUrl(game.id, categories_data[c].id), resp, TRUE)
                    ELSE UNCHANGED log
                 /\ world_record_time' = WorldRecord(resp.payload)
                 /\ records' = Append(records, [game |-> game.id,
                                                time |-> WorldRecord(resp.payload),
                                                log |-> Len(log'),
                                                sleeps |-> sleeps])
                 /\ printed' = (IF MeetsTimeFilter(WorldRecord(resp.payload))
                                THEN Append(printed, ReportLine(WorldRecord(resp.payload), game))
                                ELSE printed)
                 /\ pc' = "for_game"
                 /\ UNCHANGED sleeps
    /\ UNCHANGED <<url, platform_id, genre_ids_to_include, genre_ids_to_exclude, idx,
                   game, categories_data, yielded, calls, seen, stopped>>
    /\ UNCHANGED config

\* ----------------------------------------------------------- specification
Next ==
    \/ GetPlatformId
    \/ GetGenreIds
    \/ GetPlatformGames
    \/ ForGame
    \/ GamesPagination
    \/ GetCategoryData
    \/ GetLeaderboardData

Spec == Init /\ [][Next]_vars

\* ------------------------------------------- repeated get_world_record_any
\* The run at its first call of get_world_record_any (line 44): the platform
\* and the one page of the game catalog were fetched and the game was yielded.
LookupInit ==
    \E names \in SeqUpTo(CategoryNames, MaxEntries), lb \in LeaderboardShapes,
       ca \in BOOLEAN :
        LET pid == DefaultPlatforms[1].data[1].id
            g == OneGame[1].data[1]
        IN  /\ remote = Remote(DefaultPlatforms, DefaultGenres, OneGame, DefaultDetails,
                     [x \in GameIds |->
                        IF ca THEN Categories(CategoryEntries(names)) ELSE NoCategories],
                     [x \in GameIds |-> [c \in CategoryIds |->
                        IF \E i \in 1..Len(names) :
                               /\ names[i] = "Any%"
                               /\ i < c
                        THEN Leaderboard(<<9000>>) ELSE lb]])
            /\ GENRES_TO_INCLUDE = {}
            /\ GENRES_TO_EXCLUDE = {}
            /\ PLATFORM_EXCLUSIVE = FALSE
            /\ pc = "get_category_data"
            /\ url = GamesUrl(pid, 1)
            /\ platform_id = pid
            /\ genre_ids_to_include = <<>>
            /\ genre_ids_to_exclude = <<>>
            /\ idx = 2
            /\ game = g
            /\ categories_data = <<>>
            /\ world_record_time = None
            /\ printed = <<>>
            /\ records = <<>>
            /\ calls = <<[game |-> g.id, log |-> 2, sleeps |-> 0]>>
            /\ yielded = <<g>>
            /\ seen = <<g>>
            /\ log = <<[url |-> PlatformsUrl(1), status |-> 200, parsed |-> TRUE],
                       [url |-> GamesUrl(pid, 1), status |-> 200, parsed |-> TRUE]>>
            /\ stopped = {}
            /\ sleeps = 0

\* The caller calls get_world_record_any again with the id of the same game.
LookupAgain ==
    /\ pc = "for_game"
    /\ Len(records) < MaxCalls
    /\ pc' = "get_category_data"
    /\ calls' = Append(calls, [game |-> game.id, log |-> Len(log), sleeps |-> sleeps])
    /\ UNCHANGED <<url, platform_id, genre_ids_to_include, genre_ids_to_exclude, idx,
                   game, categories_data, world_record_time, printed, records, yielded,
                   seen, log, stopped, sleeps>>
    /\ UNCHANGED config

LookupNext ==
    \/ GetCategoryData
    \/ GetLeaderboardData
    \/ LookupAgain

LookupSpec == LookupInit /\ [][LookupNext]_vars

\* ------------------------------------------------------- terms of the claims
Is420(i) == log[i].status = RATE_LIMIT_ERROR_CODE

\* The answered (not rate-limited) requests of one kind, in order.
Answered(kind) ==
    LET Test(e) == e.url[1] = kind /\ e.status # RATE_LIMIT_ERROR_CODE
    IN  SelectSeq(log, Test)

\* The pages of a catalog that the answered requests fetched, in order.
Visits(kind) == [i \in 1..Len(Answered(kind)) |-> Answered(kind)[i].url[3]]

\* The pages of a catalog in the order their 'next' links chain them.
RECURSIVE ChainFrom(_, _, _)
ChainFrom(cat, p, fuel) ==
    LET nexts == IF cat[p].hasLinks
                 THEN {l \in Range(cat[p].links) : l.rel = "next"}
                 ELSE {}
    IN  IF nexts = {} \/ fuel = 0 THEN <<p>>
        ELSE <<p>> \o ChainFrom(cat, (CHOOSE l \in nexts : TRUE).uri, fuel - 1)

Chain(cat) == ChainFrom(cat, 1, Len(cat))

\* The entries of a catalog in traversal order.
Entries(cat) == Concat([i \in 1..Len(Chain(cat)) |-> cat[Chain(cat)[i]].data])

HasNextLink(pg) == pg.hasLinks /\ \E l \in Range(pg.links) : l.rel = "next"

PageAt(u) ==
    CASE u[1] = "platforms" -> remote.platforms[u[3]]
      [] u[1] = "genres" -> remote.genres[u[3]]
      [] OTHER -> remote.games[u[3]]

\* get_platform_id has returned (it neither runs nor has raised).
PlatformReturned ==
    /\ pc # "get_platform_id"
    /\ ~(pc = "raised" /\ log[Len(log)].url[1] = "platforms")

\* The genre resolver has returned.
GenresReturned == \E u \in stopped : u[1] = "genres"

\* C1: every request answered with the rate-limit status is not parsed as a
\* payload, does not end the run with an exception, is followed by a sleep,
\* and is re-issued to the same URL before anything else is requested.
C1_RateLimitRetried ==
    /\ sleeps = Count420(log)
    /\ \A i \in 1..Len(log) :
          Is420(i) =>
            /\ ~log[i].parsed
            /\ i = Len(log) => pc \notin {"raised", "done"}
            /\ i < Len(log) => log[i + 1].url = log[i].url

\* The run in which no request is rate-limited, as a function of the remote
\* catalog and the configuration: the pages the loops of lines 107-145 and
\* 234-262 walk, the ids main passes on, the games yielded, the lines printed.
RECURSIVE WalkLast(_, _, _)
WalkLast(cat, p, fuel) ==
    LET nxt == IF cat[p].hasLinks THEN NextPageUrlLast(cat[p].links) ELSE None
    IN  IF nxt = None \/ fuel = 0 THEN <<p>>
        ELSE <<p>> \o WalkLast(cat, nxt, fuel - 1)

RECURSIVE UnthrottledPlatformFrom(_, _)
UnthrottledPlatformFrom(p, fuel) ==
    LET pg == remote.platforms[p]
        m == PlatformMatch(pg.data, PLATFORM_NAME)
        nxt == NextPageUrlScan(pg.links)
    IN  IF m # 0 THEN pg.data[m].id
        ELSE IF nxt = None \/ fuel = 0 THEN None
        ELSE UnthrottledPlatformFrom(nxt, fuel - 1)

UnthrottledPlatform == UnthrottledPlatformFrom(1, Len(remote.platforms))

UnthrottledGenreData ==
    LET w == WalkLast(remote.genres, 1, Len(remote.genres))
    IN  IF StageAfterPlatform(None) = "get_genre_ids"
        THEN Concat([i \in 1..Len(w) |-> remote.genres[w[i]].data])
        ELSE <<>>

UnthrottledInclude == IncludeIdsOf(UnthrottledGenreData, GENRES_TO_INCLUDE)

UnthrottledExclude ==
    ExcludeIdsOf(UnthrottledGenreData, GENRES_TO_INCLUDE, GENRES_TO_EXCLUDE)

UnthrottledGames ==
    LET w == WalkLast(remote.games, 1, Len(remote.games))
        Keep(g) ==
            /\ PassesGenreFilters(g, UnthrottledInclude, UnthrottledExclude)
            /\ PLATFORM_EXCLUSIVE => IsExclusive(remote.details[g.id], UnthrottledPlatform)
    IN  IF UnthrottledPlatform = None THEN <<>>
        ELSE SelectSeq(Concat([i \in 1..Len(w) |-> remote.games[w[i]].data]), Keep)

UnthrottledRecord(g) ==
    LET cats == IF remote.categories[g.id].hasData
                THEN remote.categories[g.id].data ELSE <<>>
        c == AnyPercentCategory(cats)
    IN  IF c = 0 THEN None ELSE WorldRecord(remote.leaderboards[g.id][cats[c].id])

UnthrottledReport ==
    LET Keep(g) == MeetsTimeFilter(UnthrottledRecord(g))
        gs == SelectSeq(UnthrottledGames, Keep)
    IN  [i \in 1..Len(gs) |-> ReportLine(UnthrottledRecord(gs[i]), gs[i])]

\* C2: a run that ends has printed the report of the run in which no request
\* is rate-limited, whichever of its requests were rate-limited.
C2_ThrottlingKeepsReport == pc = "done" => printed = UnthrottledReport

\* The same for the runs in which no request was rate-limited.
UnthrottledRunPrintsReport ==
    (pc = "done" /\ Count420(log) = 0) => printed = UnthrottledReport

\* C3: a pagination loop (platforms, genres, games) ends only at a page none
\* of whose links has the relation 'next', wherever the link stands.
C3_StopsOnlyWithoutNext == \A u \in stopped : ~HasNextLink(PageAt(u))

\* C4: when get_platform_id has returned, it has fetched the pages of the
\* catalog in traversal order up to the page of the first entry named
\* PLATFORM_NAME and returned that entry's id; it has returned None exactly
\* when it fetched every page and no entry has the name.
C4_FirstPlatformMatch ==
    LET cat == remote.platforms
        es == Entries(cat)
        matches == {k \in 1..Len(es) : es[k].name = PLATFORM_NAME}
        \* number of entries on the first n pages of the chain
        upto(n) == Len(Concat([i \in 1..n |-> cat[Chain(cat)[i]].data]))
        v == Visits("platforms")
    IN  PlatformReturned =>
          /\ Len(v) <= Len(Chain(cat))
          /\ v = SubSeq(Chain(cat), 1, Len(v))
          /\ Len(Answered("platforms")) = Cardinality({i \in 1..Len(log) :
                                                        log[i].url[1] = "platforms"})
          /\ platform_id # None =>
                /\ matches # {}
                /\ platform_id = es[Min(matches)].id
                /\ upto(Len(v) - 1) < Min(matches)
                /\ Min(matches) <= upto(Len(v))
          /\ platform_id = None <=> (v = Chain(cat) /\ matches = {})

\* C4 witness: the name is found on the second page, after an entry whose name
\* differs from it in case only.
C4_Witness ==
    /\ PlatformReturned
    /\ platform_id # None
    /\ Len(Visits("platforms")) = 2
    /\ \E e \in Range(remote.platforms[1].data) : e.name # PLATFORM_NAME

\* C5: once get_platform_id has returned None, the run requests nothing but
\* what it requested of the platform catalog, and prints nothing.
C5_NotFoundHalts ==
    (PlatformReturned /\ platform_id = None) =>
        /\ \A i \in 1..Len(log) : log[i].url[1] = "platforms"
        /\ printed = <<>>

\* C6: when the genre resolver has returned, it has fetched every page of the
\* genre catalog once, the include list holds the ids of the genres named in
\* GENRES_TO_INCLUDE, and the exclude list those of the genres named in
\* GENRES_TO_EXCLUDE and not in GENRES_TO_INCLUDE.
C6_GenresClassified ==
    LET es == Entries(remote.genres)
    IN  GenresReturned =>
          /\ Visits("genres") = Chain(remote.genres)
          /\ Range(genre_ids_to_include) =
                {es[k].id : k \in {j \in 1..Len(es) : es[j].name \in GENRES_TO_INCLUDE}}
          /\ Range(genre_ids_to_exclude) =
                {es[k].id : k \in {j \in 1..Len(es) :
                                     /\ es[j].name \in GENRES_TO_EXCLUDE
                                     /\ es[j].name \notin GENRES_TO_INCLUDE}}
          /\ Range(genre_ids_to_include) \cap Range(genre_ids_to_exclude) = {}

\* C7: every game the enumerator has yielded carries genre information.
C7_YieldedHaveGenres == \A i \in 1..Len(yielded) : yielded[i].hasGenres

\* C7 witness: a run has ended in which a game without genre information was
\* taken from a page and another game was yielded.
C7_Witness ==
    /\ pc = "done"
    /\ \E i \in 1..Len(seen) : ~seen[i].hasGenres
    /\ Len(yielded) > 0

\* C8: with no include id, no exclude id and exclusivity off, the games
\* yielded are the games taken from the pages that carry genre information,
\* those with an empty genre list among them.
C8_NoIncludeNoFiltering ==
    LET Kept(g) == g.hasGenres
    IN  (genre_ids_to_include = <<>> /\ genre_ids_to_exclude = <<>> /\ ~PLATFORM_EXCLUSIVE)
            => yielded = SelectSeq(seen, Kept)

\* C8 witness: a game with an empty genre list was yielded while the name
\* lists were empty.
C8_Witness ==
    /\ genre_ids_to_include = <<>>
    /\ genre_ids_to_exclude = <<>>
    /\ ~PLATFORM_EXCLUSIVE
    /\ \E i \in 1..Len(yielded) : yielded[i].hasGenres /\ yielded[i].genres = {}
    /\ \E i \in 1..Len(seen) : ~seen[i].hasGenres

\* C9: with exclusivity off, the games yielded are the games taken from the
\* pages that carry genre information, meet the include ids when there are
\* any, and meet no exclude id when there are any.
C9_GenreFilter ==
    LET inc == Range(genre_ids_to_include)
        exc == Range(genre_ids_to_exclude)
        Kept(g) ==
            /\ g.hasGenres
            /\ inc = {} \/ g.genres \cap inc # {}
            /\ exc = {} \/ g.genres \cap exc = {}
    IN  ~PLATFORM_EXCLUSIVE =>
          /\ yielded = SelectSeq(seen, Kept)
          /\ \A i \in 1..Len(yielded) :
                /\ yielded[i].genres \cap exc = {}
                /\ inc # {} => yielded[i].genres \cap inc # {}

\* C9 witness: with include ids and exclude ids, one game was yielded and a
\* game that carries an included and an excluded genre was not.
C9_Witness ==
    /\ ~PLATFORM_EXCLUSIVE
    /\ genre_ids_to_include # <<>>
    /\ genre_ids_to_exclude # <<>>
    /\ Len(yielded) > 0
    /\ \E i \in 1..Len(seen) :
          /\ seen[i] \notin Range(yielded)
          /\ seen[i].genres \cap Range(genre_ids_to_include) # {}
          /\ seen[i].genres \cap Range(genre_ids_to_exclude) # {}

\* The ids of the games whose detail was requested, in order.
DetailRequests ==
    LET Test(e) == e.url[1] = "game"
        rs == SelectSeq(log, Test)
    IN  [i \in 1..Len(rs) |-> rs[i].url[2]]

\* The answer the one detail request of a game got.
DetailAnswer(gid) ==
    LET i == CHOOSE j \in 1..Len(log) : log[j].url = GameUrl(gid)
    IN  IF Is420(i) THEN ErrorObject ELSE remote.details[gid]

\* C10: with exclusivity on, the details requested are those of the games
\* that passed the genre filters, one request each, and such a game is
\* yielded exactly when the answer holds a platform list whose one member is
\* platform_id; with exclusivity off no detail is requested.
C10_ExclusiveDetail ==
    LET inc == Range(genre_ids_to_include)
        exc == Range(genre_ids_to_exclude)
        Passed(g) ==
            /\ g.hasGenres
            /\ inc = {} \/ g.genres \cap inc # {}
            /\ exc = {} \/ g.genres \cap exc = {}
        passed == SelectSeq(seen, Passed)
        Kept(g) ==
            /\ Passed(g)
            /\ DetailAnswer(g.id).hasData
            /\ DetailAnswer(g.id).hasPlatforms
            /\ Len(DetailAnswer(g.id).platforms) = 1
            /\ DetailAnswer(g.id).platforms[1] = platform_id
    IN  /\ PLATFORM_EXCLUSIVE =>
            /\ DetailRequests = [i \in 1..Len(passed) |-> passed[i].id]
            /\ yielded = SelectSeq(seen, Kept)
        /\ ~PLATFORM_EXCLUSIVE => DetailRequests = <<>>

\* C10 witness: with exclusivity on, of two games whose detail was requested
\* one was yielded and one, on several platforms, was not.
C10_Witness ==
    /\ PLATFORM_EXCLUSIVE
    /\ Len(DetailRequests) = 2
    /\ Len(yielded) = 1
    /\ \E i \in 1..Len(seen) :
          /\ seen[i] \notin Range(yielded)
          /\ Len(remote.details[seen[i].id].platforms) > 1
\* The category list get_category_data returns for a game.
CategoriesOf(gid) ==
    IF remote.categories[gid].hasData THEN remote.categories[gid].data ELSE <<>>

\* The positions of the categories of a game that are named 'Any%'.
AnyPercents(gid) ==
    {k \in 1..Len(CategoriesOf(gid)) : CategoriesOf(gid)[k].name = "Any%"}

\* The runs of the leaderboard of a category of a game.
RunsOf(gid, cid) ==
    LET lb == remote.leaderboards[gid][cid]
    IN  IF lb.hasData /\ lb.hasRuns THEN lb.runs ELSE <<>>

\* The requests for a leaderboard of a game, as positions of the log.
LeaderboardRequests(gid) ==
    {j \in 1..Len(log) : log[j].url[1] = "leaderboards" /\ log[j].url[2] = gid}

\* C11: a finished lookup has returned None, without any leaderboard request,
\* when the game has no category named 'Any%'; None when the leaderboard of
\* its 'Any%' category has no run; and else the time of the first run.
C11_WorldRecordAny ==
    \A i \in 1..Len(records) :
        LET gid == records[i].game
            cats == CategoriesOf(gid)
        IN  IF AnyPercents(gid) = {}
            THEN /\ records[i].time = None
                 /\ LeaderboardRequests(gid) = {}
            ELSE LET runs == RunsOf(gid, cats[Min(AnyPercents(gid))].id)
                 IN  IF Len(runs) = 0
                     THEN records[i].time = None
                     ELSE records[i].time = runs[1]

\* C11 witness: a lookup has returned the first of two runs, of the second
\* category of the game.
C11_Witness ==
    \E i \in 1..Len(records) :
        /\ records[i].time = 7500
        /\ AnyPercents(records[i].game) = {2}
        /\ Len(RunsOf(records[i].game, 2)) = 2
\* The requests a finished lookup has issued, in order.
LookupLog(i) == SubSeq(log, calls[i].log + 1, records[i].log)

\* The number of requests of one kind in a sequence of requests, and the
\* number of them that were throttled.
Requests(es, kind) == Cardinality({n \in 1..Len(es) : es[n].url[1] = kind})

Throttled(es, kind) ==
    Cardinality({n \in 1..Len(es) :
                    es[n].url[1] = kind /\ es[n].status = RATE_LIMIT_ERROR_CODE})

\* The value a lookup derives from the non-throttled answers of the remote.
RecordOf(gid) ==
    IF AnyPercents(gid) = {} THEN None
    ELSE LET runs == RunsOf(gid, CategoriesOf(gid)[Min(AnyPercents(gid))].id)
         IN  IF Len(runs) = 0 THEN None ELSE runs[1]

AboveThreshold ==
    LET Test(r) ==
            /\ r.time # None
            /\ r.time > ANY_PERCENT_MIN_RUN_TIME_HOURS * 3600 +
                         ANY_PERCENT_MIN_RUN_TIME_MINUTES * 60
    IN  SelectSeq(records, Test)

\* C13: the lines printed are those of the games whose lookup returned a time
\* strictly above the threshold, one line each; every call of the lookup but
\* the one under way has returned, and no request of a lookup ends the run
\* with an exception.
C13_ReportStrict ==
    /\ printed = [n \in 1..Len(AboveThreshold) |->
                    ReportLine(AboveThreshold[n].time, [id |-> AboveThreshold[n].game])]
    /\ Len(calls) - Len(records) \in {0, 1}
    /\ pc = "for_game" => Len(calls) = Len(records)
    /\ pc = "raised" /\ Len(log) > 0 =>
            log[Len(log)].url[1] \notin {"categories", "leaderboards"}

\* C13 witness: after a game whose lookup found no record, the next game was
\* looked up and printed.
C13_Witness ==
    /\ Len(records) = 2
    /\ records[1].time = None
    /\ records[2].time = 7500
    /\ printed = <<ReportLine(7500, [id |-> records[2].game])>>
\* The answered requests for a page of a catalog that lacks 'data' or
\* 'pagination', as positions of the log.
MalformedFetches ==
    {n \in 1..Len(log) :
        /\ log[n].url[1] \in {"platforms", "genres", "games"}
        /\ log[n].status # RATE_LIMIT_ERROR_CODE
        /\ ~PageAt(log[n].url).hasData \/ ~PageAt(log[n].url).hasLinks}

\* C14: a pagination loop that fetched a page without 'data' or without
\* 'pagination' has not raised at it and requests no further page of the catalog.
C14_DegradeAndStop ==
    \A n \in MalformedFetches :
        /\ ~(pc = "raised" /\ n = Len(log))
        /\ \A m \in (n + 1)..Len(log) : log[m].url[1] # log[n].url[1]
\* s is a prefix of t; s is t with some elements left out.
IsPrefix(s, t) == Len(s) <= Len(t) /\ s = SubSeq(t, 1, Len(s))

RECURSIVE IsSubseq(_, _)
IsSubseq(s, t) ==
    IF s = <<>> THEN TRUE
    ELSE IF t = <<>> THEN FALSE
    ELSE IF Head(s) = Head(t) THEN IsSubseq(Tail(s), Tail(t))
    ELSE IsSubseq(s, Tail(t))

NoDuplicates(s) == \A a, b \in 1..Len(s) : s[a] = s[b] => a = b

\* The entries of the game-catalog pages fetched so far, in the order fetched.
VisitedGames ==
    Concat([i \in 1..Len(Visits("games")) |-> remote.games[Visits("games")[i]].data])

\* C15: the pages of the game catalog are fetched in the order of the chain of
\* next links, each once; the games yielded are games of the fetched pages in
\* that order, none twice; the lines printed are lines of yielded games in the
\* same order, none twice.
C15_CatalogOrder ==
    /\ IsPrefix(Visits("games"), Chain(remote.games))
    /\ IsSubseq(yielded, VisitedGames)
    /\ NoDuplicates([i \in 1..Len(yielded) |-> yielded[i].id])
    /\ IsSubseq([i \in 1..Len(printed) |-> printed[i][3]],
                [i \in 1..Len(yielded) |-> yielded[i].id])
    /\ NoDuplicates([i \in 1..Len(printed) |-> printed[i][3]])

\* C15 witness: the requests for both pages of the catalog were throttled
\* once, and the game of each page was yielded and printed.
C15_Witness ==
    /\ Visits("games") = <<1, 2>>
    /\ \A p \in {1, 2} : \E n \in 1..Len(log) :
            log[n].url[1] = "games" /\ log[n].url[3] = p /\ Is420(n)
    /\ Len(yielded) = 2
    /\ Len(printed) = 2
    /\ yielded[1] \in Range(remote.games[1].data)
    /\ yielded[2] \in Range(remote.games[2].data)
\* The enumeration of the games has begun and the run has ended.
EnumerationEnded ==
    /\ pc \in {"done", "raised"}
    /\ \E n \in 1..Len(log) : log[n].url[1] = "games"

\* C16: a run that has ended after its enumeration of the games began has
\* ended normally and has fetched every page of the chain of next links.
C16_EndsAfterWholeChain ==
    EnumerationEnded =>
        /\ pc = "done"
        /\ Visits("games") = Chain(remote.games)
RequestsOf(kind) == {n \in 1..Len(log) : log[n].url[1] = kind}

\* C18: with both name lists empty no request goes to the genre catalog and
\* both id lists are empty; otherwise every request to the genre catalog
\* comes before the first request to the game catalog, by which time the
\* loop over the genre catalog has ended.
C18_GenresBeforeGames ==
    IF GENRES_TO_INCLUDE = {} /\ GENRES_TO_EXCLUDE = {}
    THEN /\ RequestsOf("genres") = {}
         /\ genre_ids_to_include = <<>>
         /\ genre_ids_to_exclude = <<>>
    ELSE RequestsOf("games") # {} =>
            /\ \A m \in RequestsOf("genres"), n \in RequestsOf("games") : m < n
            /\ \E m \in RequestsOf("genres") :
                    /\ ~Is420(m)
                    /\ log[m].url \in stopped
                    /\ \A k \in RequestsOf("genres") : k <= m

\* C18 witness: with a name list not empty, two pages of the genre catalog
\* were fetched, one after a throttled request, before the game catalog.
C18_Witness ==
    /\ GENRES_TO_INCLUDE # {}
    /\ Visits("genres") = <<1, 2>>
    /\ \E m \in RequestsOf("genres") : Is420(m)
    /\ RequestsOf("games") # {}
\* The position of the log at which call i of the lookup returned, or the
\* end of the log while it is under way.
ReturnOf(i) == IF i <= Len(records) THEN records[i].log ELSE Len(log)

\* C19: call i of the lookup is for the i-th game yielded; every request for
\* a game's categories or leaderboard lies between the call for that game
\* and its return, and no other request does; when a page of the game
\* catalog is requested, every call made before has returned.
C19_LazyInterleaving ==
    /\ Len(calls) = Len(yielded)
    /\ \A i \in 1..Len(calls) : calls[i].game = yielded[i].id
    /\ \A n \in RequestsOf("categories") \cup RequestsOf("leaderboards") :
            \E i \in 1..Len(calls) :
                /\ calls[i].game = log[n].url[2]
                /\ calls[i].log < n
                /\ n <= ReturnOf(i)
    /\ \A i \in 1..Len(calls) : \A n \in (calls[i].log + 1)..ReturnOf(i) :
            /\ log[n].url[1] \in {"categories", "leaderboards"}
            /\ log[n].url[2] = calls[i].game
    /\ \A n \in RequestsOf("games") : \A i \in 1..Len(calls) :
            calls[i].log < n => i <= Len(records) /\ records[i].log < n

\* C19 witness: the second page of the game catalog was requested after the
\* lookup for the game of the first page, which met a throttled request, had
\* returned; the game of the second page was then yielded and looked up.
C19_Witness ==
    /\ Len(records) = 2
    /\ Count420(LookupLog(1)) > 0
    /\ \E n \in RequestsOf("games") :
            /\ log[n].url[3] = 2
            /\ records[1].log < n
            /\ n <= calls[2].log
\* C20: every request for a leaderboard of a game, throttled or answered, is
\* for the first category of the game's list that is named 'Any%', and a
\* call of the lookup gets at most one answer that is not throttled.
C20_FirstAnyPercent ==
    /\ \A n \in RequestsOf("leaderboards") :
            LET gid == log[n].url[2]
            IN  /\ AnyPercents(gid) # {}
                /\ log[n].url[3] = CategoriesOf(gid)[Min(AnyPercents(gid))].id
    /\ \A i \in 1..Len(calls) :
            Cardinality({n \in (calls[i].log + 1)..ReturnOf(i) :
                            log[n].url[1] = "leaderboards" /\ ~Is420(n)}) <= 1

\* C20 witness: for a game with two categories named 'Any%' the leaderboard
\* request was throttled and then answered.
C20_Witness ==
    \E i \in 1..Len(records) :
        /\ AnyPercents(records[i].game) = {1, 2}
        /\ Throttled(LookupLog(i), "leaderboards") > 0
        /\ records[i].time = 7500
====
